---- MODULE Spec2Model ----
(***************************************************************************)
(* Limit-order intake (agent_tools/tool_trade_limit.py) and the daily      *)
(* settlement run (settlement_logic.py) of one account.                    *)
(*                                                                         *)
(* Files are modelled by their contents: position.jsonl is the sequence    *)
(* `ledger`, pending_orders/<date>.jsonl is the sequence pending[date].    *)
(* Dates are integers (date 0 is the inception date, every later integer a *)
(* trading session); prices and cash are integers.  A positions dict is a  *)
(* function on Keys, a missing key reading 0 as positions.get(k, 0) does.  *)
(***************************************************************************)
EXTENDS Integers, Sequences, FiniteSets, TLC

VARIABLES
    ledger,      \* position/position.jsonl, in append order
    pending,     \* pending_orders/<date>.jsonl, per date, in append order
    lock,        \* holder of the account's position lock
    run,         \* per settlement caller: position in run_daily_settlement and its locals
    clock,       \* the next value of time.time()
    inflight,    \* intake calls that took their timestamp and have not yet written
    IF_TRADE,    \* the IF_TRADE configuration flag
    reply,       \* status of the value the last finished intake call returned
    prices,      \* the Price Oracle's data: per date and symbol, the day's high and low
    outcome      \* how the last finished settlement call ended, as its caller sees it

vars == <<ledger, pending, lock, run, clock, inflight, IF_TRADE, reply, prices, outcome>>
intakeVars == <<clock, inflight, IF_TRADE, reply>>

\* ------------------------------------------------------------------ bounds
NumDates == 2       \* trading dates 1..NumDates
MaxOrders == 2      \* intake calls that pass validation in one behaviour of Spec
MaxLen == 2
MantissaBits == 12         \* lines of the day's intent log drawn by SpecBatch

\* ------------------------------------------------------------- input sets
Dates == 1..NumDates
Callers == {"s1", "s2"}              \* processes that invoke run_daily_settlement
NoHolder == "nobody"
Symbols == {"AAPL", "600519.SH"}
Keys == {"CASH"} \cup Symbols
Sides == {"buy", "sell"}
None == 0 - 1                        \* Python's None in a numeric field

\* lot size of Chinese A-shares
LotSize == 100

\* symbol.endswith((".SH", ".SZ")), on the symbols of the model
EndsWithCN(symbol) == symbol \in {"600519.SH"}

\* market auto-detection of the intake tools
MarketOf(symbol) == IF EndsWithCN(symbol) THEN "cn" ELSE "us"

ZeroPosition == [k \in Keys |-> 0]

\* ------------------------------------------------------ float arithmetic
\* Prices and cash are Python floats: binary, with a significand of fixed
\* width (53 bits in CPython), every operation rounded to the nearest
\* float, ties to the even significand.  The model keeps the format and
\* narrows the significand to MantissaBits bits; numbers are counted in
\* the smallest unit of the model, so integers below 2^MantissaBits are
\* exact and larger ones are spaced 2, 4, ... apart.
Abs(x) == IF x < 0 THEN 0 - x ELSE x

\* the spacing of the floats at magnitude a
RECURSIVE spacing_from(_, _)
spacing_from(a, s) ==
    IF a < s * 2^MantissaBits THEN s ELSE spacing_from(a, 2 * s)

\* the float nearest to the number x: float(x), and the rounding of the
\* result of *, + and - on floats
to_float(x) ==
    LET a == Abs(x)
        s == spacing_from(a, 1)
        lo == (a \div s) * s
        r == a - lo
        near == IF 2 * r > s \/ (2 * r = s /\ (lo \div s) % 2 = 1)
                THEN lo + s ELSE lo
    IN  IF x < 0 THEN 0 - near ELSE near

\* ------------------------------------------------------- Position Ledger
\* The inception record an account is registered with (written outside src/).
Seed(cash, us, cn) ==
    [date |-> 0, id |-> 0, this_action |-> "seed", trades |-> <<>>,
     positions |-> [k \in Keys |-> IF k = "CASH" THEN cash
                                   ELSE IF EndsWithCN(k) THEN cn ELSE us]]

\* id returned when the ledger holds no snapshot on or before the date
InceptionId == -1

\* Calendar Service: the prior trading session
get_yesterday_date(today_date) == today_date - 1

\* latest(date, account): the most recent snapshot dated on or before `date`
\* (greatest date, the later line among equal dates), with its id
get_latest_position(l, date) ==
    LET cand == {i \in 1..Len(l) : l[i].date <= date}
    IN  IF cand = {} THEN [positions |-> ZeroPosition, id |-> InceptionId]
        ELSE LET i == CHOOSE i \in cand : \A j \in cand :
                          \/ l[j].date < l[i].date
                          \/ (l[j].date = l[i].date /\ j <= i)
             IN  [positions |-> l[i].positions, id |-> l[i].id]

\* A check that looks at the last line of the ledger only.
already_settled_last_line(l, today_date) ==
    /\ l # <<>>
    /\ l[Len(l)].date = today_date
    /\ l[Len(l)].this_action = "daily_settlement"

\* Step 2.5: a record of today's date whose action is daily_settlement
already_settled(l, today_date) ==
    \E i \in 1..Len(l) : l[i].date = today_date /\ l[i].this_action = "daily_settlement"

\* A save that keeps the Filled trades only.
save_filled_only(l, today_date, action_id, trades_log, positions, io_ok) ==
    IF io_ok
    THEN Append(l, [date |-> today_date, id |-> action_id,
                    this_action |-> "daily_settlement",
                    trades |-> SelectSeq(trades_log, LAMBDA t : t.status = "Filled"),
                    positions |-> positions])
    ELSE l

\* _save_position_record: one line appended to position.jsonl; an I/O error
\* of the append is printed and the ledger is left as it was
save_position_record(l, today_date, action_id, trades_log, positions, io_ok) ==
    IF io_ok
    THEN Append(l, [date |-> today_date, id |-> action_id,
                    this_action |-> "daily_settlement",
                    trades |-> trades_log, positions |-> positions])
    ELSE l

\* ------------------------------------------------------------ Intent Log
\* One line of pending_orders/<date>.jsonl.  form "ok": a record as the
\* intake tools write it; "garbage": a line json.loads rejects;
\* "no_timestamp", "no_amount": a parsed record lacking that key.
Line(form, ts, action, symbol, amount, limit_price) ==
    [form |-> form, timestamp |-> ts, action |-> action, symbol |-> symbol,
     amount |-> amount, limit_price |-> limit_price, market |-> MarketOf(symbol)]

\* the lines json.loads accepts, in file order
parsed_lines(lines) == SelectSeq(lines, LAMBDA x : x.form # "garbage")

\* An insertion that puts a record before the records of equal timestamp.
InsertBeforeEqual(r, x) ==
    LET k == Cardinality({i \in 1..Len(r) : r[i].timestamp < x.timestamp})
    IN  SubSeq(r, 1, k) \o <<x>> \o SubSeq(r, k + 1, Len(r))

\* sorted(pending_orders, key=timestamp): ascending, equal keys keep file order
InsertByTimestamp(r, x) ==
    LET k == Cardinality({i \in 1..Len(r) : r[i].timestamp <= x.timestamp})
    IN  SubSeq(r, 1, k) \o <<x>> \o SubSeq(r, k + 1, Len(r))

\* The orders left in file order.
file_order(s) == s

RECURSIVE sorted_by_timestamp(_)
sorted_by_timestamp(s) ==
    IF s = <<>> THEN <<>>
    ELSE InsertByTimestamp(sorted_by_timestamp(SubSeq(s, 1, Len(s) - 1)), s[Len(s)])

\* ---------------------------------------------------------- Price Oracle
NoEntry == [present |-> FALSE, low |-> None, high |-> None]
Quotes ==
    {[present |-> TRUE, low |-> 2, high |-> 3],
     [present |-> TRUE, low |-> 2, high |-> 2],
     [present |-> TRUE, low |-> 3, high |-> 3]}
PartialQuotes ==
    {[present |-> TRUE, low |-> None, high |-> 2],
     [present |-> TRUE, low |-> 2, high |-> None]}

\* ----------------------------------------------------- settlement locals
IdleRun ==
    [pc |-> "idle", today_date |-> 0, last_action_id |-> 0,
     settled_position |-> ZeroPosition, start_position |-> ZeroPosition,
     sorted_orders |-> <<>>, market_data |-> [s \in Symbols |-> NoEntry],
     shares_bought_today_cn |-> [s \in Symbols |-> 0],
     executed_trades_log |-> <<>>, idx |-> 0, ret |-> "none", entry |-> <<>>]

\* What the caller of a finished call observes: the way the call ended
\* (the exception that reached it, or the return statement taken), its
\* date, and the ledger as the call found it on entering the `with` block.
NoOutcome == [exit |-> "none", date |-> 0, before |-> <<>>]

\* the ways out by an exception that reaches the caller
Raises == {"calendar_error", "oracle_error", "sort_error", "order_error"}
\* the ways out by a return statement
Returns == {"skip", "no_file", "no_orders", "read_error", "saved"}

\* leaving the `with` block: the lock is released and the locals are gone
Leave(p, how) ==
    /\ lock' = NoHolder
    /\ run' = [run EXCEPT ![p] = IdleRun]
    /\ outcome' = [exit |-> how, date |-> run[p].today_date, before |-> run[p].entry]

\* one entry of executed_trades_log
Trade(order, status, filled_price, day_low_price, day_high_price, total_shares, sellable_shares, reason) ==
    [timestamp |-> order.timestamp, action |-> order.action, symbol |-> order.symbol,
     amount |-> order.amount, limit_price |-> order.limit_price, status |-> status,
     filled_price |-> filled_price, day_low_price |-> day_low_price,
     day_high_price |-> day_high_price, total_shares |-> total_shares,
     sellable_shares |-> sellable_shares, reason |-> reason]

Plain(order, status) == Trade(order, status, None, None, None, None, None, "")

\* A cost that leaves out the quantity.
cost_per_share(order) == order.limit_price

\* Step 7.2: cost = limit_price * amount
cost_of(order) == to_float(order.limit_price * order.amount)

\* A cash check that asks for more cash than the cost.
has_more_cash(pos, cost) == pos["CASH"] > cost

\* A cash check that only asks for a positive balance.
has_some_cash(pos, cost) == pos["CASH"] > 0

\* Step 7.2: settled_position.get('CASH', 0) >= cost
has_cash(pos, cost) == pos["CASH"] >= cost

\* A sellable quantity that ignores the T+1 rule.
sellable_t0(total_shares, bought, order) == total_shares

\* Step 7.4: T+1, the shares bought today cannot be sold; T+0, all can
sellable_shares(total_shares, bought, order) ==
    IF order.market = "cn"
    THEN total_shares - bought[order.symbol]
    ELSE total_shares

\* A price check that asks for a limit above the day's low.
buy_price_strict(limit_price, day_low) == limit_price > day_low

\* Step 7.1: limit_price >= day_low
buy_price_ok(limit_price, day_low) == limit_price >= day_low

\* Step 7.3: limit_price <= day_high
sell_price_ok(limit_price, day_high) == limit_price <= day_high

\* A buy that debits the cost before comparing cash with cost and leaves the debit in
\* place when the cash is short.
settle_buy_debit_first(pos, bought, order, day_low) ==
    LET cost == cost_of(order)
        debited == [pos EXCEPT !["CASH"] = to_float(@ - cost)]
    IN  IF buy_price_ok(order.limit_price, day_low)
        THEN IF has_cash(pos, cost)
             THEN [positions |-> [debited EXCEPT ![order.symbol] = @ + order.amount],
                   bought |-> IF order.market = "cn"
                              THEN [bought EXCEPT ![order.symbol] = @ + order.amount]
                              ELSE bought,
                   trade |-> Trade(order, "Filled", order.limit_price,
                                   None, None, None, None, "")]
             ELSE [positions |-> debited, bought |-> bought,
                   trade |-> Plain(order, "Failed-Cash")]
        ELSE [positions |-> pos, bought |-> bought,
              trade |-> Trade(order, "OrderNotFilled-Price", None,
                              day_low, None, None, None, "")]

\* A buy that does not count the shares it bought as bought today.
settle_buy_uncounted(pos, bought, order, day_low) ==
    LET cost == cost_of(order)
    IN  IF buy_price_ok(order.limit_price, day_low)
        THEN IF has_cash(pos, cost)
             THEN [positions |-> [pos EXCEPT !["CASH"] = to_float(@ - cost),
                                             ![order.symbol] = @ + order.amount],
                   bought |-> bought,
                   trade |-> Trade(order, "Filled", order.limit_price,
                                   None, None, None, None, "")]
             ELSE [positions |-> pos, bought |-> bought,
                   trade |-> Plain(order, "Failed-Cash")]
        ELSE [positions |-> pos, bought |-> bought,
              trade |-> Trade(order, "OrderNotFilled-Price", None,
                              day_low, None, None, None, "")]

\* Step 7.1/7.2, a buy whose symbol has a high and a low
settle_buy(pos, bought, order, day_low) ==
    LET cost == cost_of(order)
    IN  IF buy_price_ok(order.limit_price, day_low)
        THEN IF has_cash(pos, cost)
             THEN [positions |-> [pos EXCEPT !["CASH"] = to_float(@ - cost),
                                             ![order.symbol] = @ + order.amount],
                   bought |-> IF order.market = "cn"
                              THEN [bought EXCEPT ![order.symbol] = @ + order.amount]
                              ELSE bought,
                   trade |-> Trade(order, "Filled", order.limit_price,
                                   None, None, None, None, "")]
             ELSE [positions |-> pos, bought |-> bought,
                   trade |-> Plain(order, "Failed-Cash")]
        ELSE [positions |-> pos, bought |-> bought,
              trade |-> Trade(order, "OrderNotFilled-Price", None,
                              day_low, None, None, None, "")]

\* Step 7.3/7.4, a sell whose symbol has a high and a low
settle_sell(pos, bought, order, day_high) ==
    LET total_shares == pos[order.symbol]
        sellable == sellable_shares(total_shares, bought, order)
        revenue == to_float(order.limit_price * order.amount)
    IN  IF sell_price_ok(order.limit_price, day_high)
        THEN IF sellable >= order.amount
             THEN [positions |-> [pos EXCEPT ![order.symbol] = @ - order.amount,
                                             !["CASH"] = to_float(@ + revenue)],
                   bought |-> bought,
                   trade |-> Trade(order, "Filled", order.limit_price,
                                   None, None, None, None, "")]
             ELSE [positions |-> pos, bought |-> bought,
                   trade |-> Trade(order, "Failed-Shares/T+1", None, None, None,
                                   total_shares, sellable,
                                   IF order.market = "cn" THEN "T+1 restriction"
                                   ELSE "Insufficient shares")]
        ELSE [positions |-> pos, bought |-> bought,
              trade |-> Trade(order, "OrderNotFilled-Price", None,
                              None, day_high, None, None, "")]

\* A loop body that looks at the prices without asking whether they exist.
settle_order_unchecked(pos, bought, order, entry) ==
    IF order.action = "buy"
    THEN settle_buy(pos, bought, order, entry.low)
    ELSE settle_sell(pos, bought, order, entry.high)

\* Step 7, one iteration of the loop over sorted_orders; an action that is
\* neither 'buy' nor 'sell' falls through the if/elif: nothing is recorded
settle_order(pos, bought, order, entry) ==
    IF ~entry.present
    THEN [positions |-> pos, bought |-> bought,
          trade |-> Plain(order, "Failed-NoMarketData")]
    ELSE IF entry.low = None \/ entry.high = None
    THEN [positions |-> pos, bought |-> bought,
          trade |-> Plain(order, "Failed-NoPriceData")]
    ELSE IF order.action = "buy"
    THEN settle_buy(pos, bought, order, entry.low)
    ELSE IF order.action = "sell"
    THEN settle_sell(pos, bought, order, entry.high)
    ELSE [positions |-> pos, bought |-> bought,
          trade |-> Plain(order, "NoOutcome")]

\* ------------------------------------------------- run_daily_settlement
\* the scheduler calls run_daily_settlement(today_date, signature)
Call(p, d) ==
    /\ run[p].pc = "idle"
    /\ run' = [run EXCEPT ![p] = [IdleRun EXCEPT !.pc = "lock", !.today_date = d]]
    /\ UNCHANGED <<ledger, pending, lock, intakeVars, prices, outcome>>

\* get_position_lock(signature): exclusive, granted only while nobody holds it
lock_available == lock = NoHolder

\* An entry that does not wait for the lock.
AcquireWithoutWaiting(p) ==
    /\ run[p].pc = "lock"
    /\ lock' = p
    /\ run' = [run EXCEPT ![p].pc = "start", ![p].entry = ledger]
    /\ UNCHANGED <<ledger, pending, intakeVars, prices, outcome>>

\* Step 1: with get_position_lock(signature)
Acquire(p) ==
    /\ run[p].pc = "lock"
    /\ lock_available
    /\ lock' = p
    /\ run' = [run EXCEPT ![p].pc = "start", ![p].entry = ledger]
    /\ UNCHANGED <<ledger, pending, intakeVars, prices, outcome>>

\* A start that takes the snapshot dated exactly T-1, or nothing.
LoadStartPositionExactDate(p) ==
    /\ run[p].pc = "start"
    /\ LET yesterday_date == get_yesterday_date(run[p].today_date)
           at == {i \in 1..Len(ledger) : ledger[i].date = yesterday_date}
           got == IF at = {} THEN [positions |-> ZeroPosition, id |-> InceptionId]
                  ELSE get_latest_position(ledger, yesterday_date)
       IN  run' = [run EXCEPT ![p].pc = "check",
                              ![p].start_position = got.positions,
                              ![p].last_action_id = got.id,
                              ![p].settled_position = got.positions]
    /\ UNCHANGED <<ledger, pending, lock, intakeVars, prices, outcome>>

\* Step 2: the T-1 position is the start position of T
LoadStartPosition(p) ==
    /\ run[p].pc = "start"
    /\ LET got == get_latest_position(ledger, get_yesterday_date(run[p].today_date))
       IN  run' = [run EXCEPT ![p].pc = "check",
                              ![p].start_position = got.positions,
                              ![p].last_action_id = got.id,
                              ![p].settled_position = got.positions]
    /\ UNCHANGED <<ledger, pending, lock, intakeVars, prices, outcome>>

\* Step 2: get_yesterday_date raises, nothing in the function catches it
CalendarError(p) ==
    /\ run[p].pc = "start"
    /\ Leave(p, "calendar_error")
    /\ UNCHANGED <<ledger, pending, intakeVars, prices>>

\* A `with` block that ends after the idempotency check.
CheckSettledThenUnlock(p) ==
    /\ run[p].pc = "check"
    /\ IF already_settled(ledger, run[p].today_date)
       THEN Leave(p, "skip")
       ELSE /\ run' = [run EXCEPT ![p].pc = "pending"]
            /\ lock' = NoHolder
            /\ UNCHANGED outcome
    /\ UNCHANGED <<ledger, pending, intakeVars, prices>>

\* Step 2.5: return when today's settlement record exists, go on otherwise
\* (also when the position file does not exist)
CheckSettled(p) ==
    /\ run[p].pc = "check"
    /\ IF already_settled(ledger, run[p].today_date)
       THEN Leave(p, "skip")
       ELSE /\ run' = [run EXCEPT ![p].pc = "pending"]
            /\ UNCHANGED <<lock, outcome>>
    /\ UNCHANGED <<ledger, pending, intakeVars, prices>>

\* Step 3: read pending_orders/<today>.jsonl; without a file, or without a
\* parseable line, the start position is saved with no trades
LoadPendingOrders(p) ==
    /\ run[p].pc = "pending"
    /\ LET pending_orders == parsed_lines(pending[run[p].today_date])
       IN  IF pending[run[p].today_date] = <<>>
           THEN run' = [run EXCEPT ![p].pc = "save", ![p].ret = "no_file"]
           ELSE IF pending_orders = <<>>
           THEN run' = [run EXCEPT ![p].pc = "save", ![p].ret = "no_orders"]
           ELSE run' = [run EXCEPT ![p].pc = "sort",
                                   ![p].sorted_orders = pending_orders]
    /\ UNCHANGED <<ledger, pending, lock, intakeVars, prices, outcome>>

\* A read-error return that leaves the lock with the caller that returned.
PendingReadErrorKeepsLock(p) ==
    /\ run[p].pc = "pending"
    /\ pending[run[p].today_date] # <<>>
    /\ run' = [run EXCEPT ![p] = IdleRun]
    /\ outcome' = [exit |-> "read_error", date |-> run[p].today_date, before |-> run[p].entry]
    /\ UNCHANGED <<ledger, pending, lock, intakeVars, prices>>

\* Step 3: opening or reading the pending file raises: printed, then return
PendingReadError(p) ==
    /\ run[p].pc = "pending"
    /\ pending[run[p].today_date] # <<>>
    /\ Leave(p, "read_error")
    /\ UNCHANGED <<ledger, pending, intakeVars, prices>>

\* Steps 4-6: sort by timestamp, fetch the day's prices of the symbols of
\* the batch, start the loop.  A record without a timestamp raises KeyError.
PrepareBatch(p) ==
    /\ run[p].pc = "sort"
    /\ IF \E i \in 1..Len(run[p].sorted_orders) :
              run[p].sorted_orders[i].form = "no_timestamp"
       THEN Leave(p, "sort_error")
       ELSE LET so == sorted_by_timestamp(run[p].sorted_orders)
                all_symbols == {so[i].symbol : i \in 1..Len(so)}
                market_data == [s \in Symbols |->
                                   IF s \in all_symbols
                                   THEN prices[run[p].today_date][s] ELSE NoEntry]
            IN  /\ run' = [run EXCEPT ![p].pc = "settle",
                                      ![p].sorted_orders = so,
                                      ![p].market_data = market_data,
                                      ![p].idx = 1]
                /\ UNCHANGED <<lock, outcome>>
    /\ UNCHANGED <<ledger, pending, intakeVars, prices>>

\* An error path that saves the start position before the exception leaves.
PriceOracleErrorSaves(p) ==
    /\ run[p].pc = "sort"
    /\ ledger' = save_position_record(ledger, run[p].today_date,
                     run[p].last_action_id + 1, <<>>, run[p].settled_position, TRUE)
    /\ Leave(p, "oracle_error")
    /\ UNCHANGED <<pending, intakeVars, prices>>

\* Step 5: get_high_low_prices raises, nothing in the function catches it
PriceOracleError(p) ==
    /\ run[p].pc = "sort"
    /\ Leave(p, "oracle_error")
    /\ UNCHANGED <<ledger, pending, intakeVars, prices>>

\* Step 7: the loop body for sorted_orders[idx]; a record without an amount
\* raises KeyError.  After the last order comes Step 8.
SettleOrder(p) ==
    /\ run[p].pc = "settle"
    /\ LET r == run[p]
           order == r.sorted_orders[r.idx]
           res == settle_order(r.settled_position, r.shares_bought_today_cn,
                               order, r.market_data[order.symbol])
       IN  IF order.form = "no_amount"
           THEN Leave(p, "order_error")
           ELSE /\ run' = [run EXCEPT
                     ![p].settled_position = res.positions,
                     ![p].shares_bought_today_cn = res.bought,
                     ![p].executed_trades_log =
                         IF res.trade.status = "NoOutcome" THEN @
                         ELSE Append(@, res.trade),
                     ![p].idx = @ + 1,
                     ![p].pc = IF r.idx = Len(r.sorted_orders) THEN "save" ELSE "settle",
                     ![p].ret = IF r.idx = Len(r.sorted_orders) THEN "saved" ELSE @]
                /\ UNCHANGED <<lock, outcome>>
    /\ UNCHANGED <<ledger, pending, intakeVars, prices>>

\* A save that reuses the id of the start position.
SavePositionSameId(p) ==
    /\ run[p].pc = "save"
    /\ ledger' = save_position_record(ledger, run[p].today_date,
                     run[p].last_action_id, run[p].executed_trades_log,
                     run[p].settled_position, TRUE)
    /\ Leave(p, run[p].ret)
    /\ UNCHANGED <<pending, intakeVars, prices>>

\* Step 8 (and the two saves of Step 3): _save_position_record, then return
SavePosition(p) ==
    /\ run[p].pc = "save"
    /\ ledger' = save_position_record(ledger, run[p].today_date,
                     run[p].last_action_id + 1, run[p].executed_trades_log,
                     run[p].settled_position, TRUE)
    /\ Leave(p, run[p].ret)
    /\ UNCHANGED <<pending, intakeVars, prices>>

\* the append of _save_position_record raises: printed, then return
SaveIOError(p) ==
    /\ run[p].pc = "save"
    /\ ledger' = save_position_record(ledger, run[p].today_date,
                     run[p].last_action_id + 1, run[p].executed_trades_log,
                     run[p].settled_position, FALSE)
    /\ Leave(p, run[p].ret)
    /\ UNCHANGED <<pending, intakeVars, prices>>

\* ------------------------------------- place_limit_buy_order / _sell_order
\* what the intake tools are called with
BuyRequests == {<<"AAPL", 100, 2>>, <<"AAPL", 0, 2>>, <<"600519.SH", 50, 2>>}
SellRequests == {<<"600519.SH", 100, 2>>, <<"AAPL", 100, 0>>, <<"600519.SH", 150, 2>>}

\* A validation without the lot rule of the CN market.
order_error_any_lot(symbol, amount, limit_price) ==
    IF amount <= 0 THEN "Amount must be positive"
    ELSE IF limit_price <= 0 THEN "Limit price must be positive"
    ELSE ""

\* the validation both tools share: amount, limit price, CN lot size
order_error(symbol, amount, limit_price) ==
    IF amount <= 0 THEN "Amount must be positive"
    ELSE IF limit_price <= 0 THEN "Limit price must be positive"
    ELSE IF MarketOf(symbol) = "cn" /\ amount % LotSize # 0
    THEN "Chinese A-shares must be traded in multiples of 100 shares"
    ELSE ""

\* Steps 1-2 of a tool: read TODAY_DATE, validate, take the timestamp
place_limit_order(side, symbol, amount, limit_price, today_date) ==
    IF order_error(symbol, amount, limit_price) # ""
    THEN /\ reply' = "error"
         /\ UNCHANGED <<clock, inflight>>
    ELSE /\ clock <= MaxOrders
         /\ inflight' = inflight \cup
                {[date |-> today_date,
                  line |-> Line("ok", clock, side, symbol, amount,
                                to_float(limit_price))]}
         /\ clock' = clock + 1
         /\ UNCHANGED reply

place_limit_buy_order(symbol, amount, limit_price, today_date) ==
    /\ place_limit_order("buy", symbol, amount, limit_price, today_date)
    /\ UNCHANGED <<ledger, pending, lock, run, IF_TRADE, prices, outcome>>

place_limit_sell_order(symbol, amount, limit_price, today_date) ==
    /\ place_limit_order("sell", symbol, amount, limit_price, today_date)
    /\ UNCHANGED <<ledger, pending, lock, run, IF_TRADE, prices, outcome>>

\* Steps 3-6 of a tool: append the order to the day's pending file, set
\* IF_TRADE, return OrderPlaced
RecordOrder(o) ==
    /\ o \in inflight
    /\ inflight' = inflight \ {o}
    /\ pending' = [pending EXCEPT ![o.date] = Append(@, o.line)]
    /\ IF_TRADE' = TRUE
    /\ reply' = "OrderPlaced"
    /\ UNCHANGED <<ledger, lock, run, clock, prices, outcome>>

\* Step 4 of a tool: the append raises, "Failed to record order" is returned
RecordOrderIOError(o) ==
    /\ o \in inflight
    /\ inflight' = inflight \ {o}
    /\ reply' = "Failed to record order"
    /\ UNCHANGED <<ledger, pending, lock, run, clock, IF_TRADE, prices, outcome>>

\* ---------------------------------------------------------- specifications
Settle(p) ==
    \/ Acquire(p)
    \/ LoadStartPosition(p)
    \/ CheckSettled(p)
    \/ LoadPendingOrders(p)
    \/ PrepareBatch(p)
    \/ SettleOrder(p)
    \/ SavePosition(p)

Fault(p) ==
    \/ CalendarError(p)
    \/ PendingReadError(p)
    \/ PriceOracleError(p)
    \/ SaveIOError(p)

Intake ==
    \/ \E r \in BuyRequests, d \in Dates : place_limit_buy_order(r[1], r[2], r[3], d)
    \/ \E r \in SellRequests, d \in Dates : place_limit_sell_order(r[1], r[2], r[3], d)
    \/ \E o \in inflight : RecordOrder(o) \/ RecordOrderIOError(o)

Scheduler == "s1"
SamePrices(q) == [d \in Dates |-> [s \in Symbols |-> q]]
NoOrders == [d \in Dates |-> <<>>]

Quiet ==
    /\ lock = NoHolder
    /\ run = [p \in Callers |-> IdleRun]
    /\ clock = 1
    /\ inflight = {}
    /\ IF_TRADE = FALSE
    /\ reply = "none"
    /\ outcome = NoOutcome

\* Spec: the account as the agent and one scheduler drive it.  Orders are
\* placed for any date, settlement is invoked for any date, any number of
\* times, one call after the other; every I/O step may fail.
Init ==
    /\ Quiet
    /\ ledger \in {<<>>, <<Seed(300, 100, 100)>>}
    /\ pending = NoOrders
    /\ prices = SamePrices([present |-> TRUE, low |-> 2, high |-> 3])

Next ==
    \/ \E d \in Dates : Call(Scheduler, d)
    \/ Settle(Scheduler)
    \/ Fault(Scheduler)
    \/ Intake

Spec == Init /\ [][Next]_vars

\* SpecConc: several processes invoke settlement concurrently, for any
\* dates, over intent logs written beforehand.
ConcLogs == {<<>>, <<Line("ok", 1, "buy", "AAPL", 100, 2)>>}

InitConc ==
    /\ Quiet
    /\ ledger \in {<<>>, <<Seed(300, 100, 100)>>}
    /\ pending \in [Dates -> ConcLogs]
    /\ prices = SamePrices([present |-> TRUE, low |-> 2, high |-> 3])

NextConc ==
    \/ \E p \in Callers, d \in Dates : Call(p, d)
    \/ \E p \in Callers : Settle(p)
    \/ \E p \in Callers : Fault(p)

SpecConc == InitConc /\ [][NextConc]_vars

\* SpecLive: two callers invoke settlement for any dates, day 1 without an
\* intent file and the later days with one buy; every call that has started
\* goes on (each of its steps returns or raises) and the blocking lock is
\* granted to a caller that keeps finding it free.
Step(p) == Settle(p) \/ Fault(p)

Fairness == \A p \in Callers : WF_vars(Step(p)) /\ SF_vars(Acquire(p))

InitLive ==
    /\ Quiet
    /\ ledger = <<Seed(300, 100, 100)>>
    /\ pending = [d \in Dates |-> IF d = 1 THEN <<>>
                                 ELSE <<Line("ok", 1, "buy", "AAPL", 100, 2)>>]
    /\ prices = SamePrices([present |-> TRUE, low |-> 2, high |-> 3])

SpecLive == InitLive /\ [][NextConc]_vars /\ Fairness

\* SpecBatch: one settlement run of date BatchDate over every intent log of
\* at most MaxLen well-formed lines, in any file order of the timestamps.
BatchDate == NumDates
BatchLimits == {2, 3}
BatchLines(n) ==
    {Line("ok", ts, a, s, LotSize, lp) :
        ts \in 1..n, a \in Sides, s \in Symbols, lp \in BatchLimits}

InitBatch ==
    /\ Quiet
    /\ ledger \in {<<>>, <<Seed(300, 0, 0)>>, <<Seed(500, 100, 100)>>}
    /\ \E n \in 0..MaxLen : \E log \in [1..n -> BatchLines(n)] : pending = [NoOrders EXCEPT ![BatchDate] = log]
    /\ \E q \in Quotes : prices = SamePrices(q)

NextBatch ==
    \/ outcome = NoOutcome /\ Call(Scheduler, BatchDate)
    \/ Settle(Scheduler)

SpecBatch == InitBatch /\ [][NextBatch]_vars

\* SpecFaulty: one settlement run of date BatchDate in a failing
\* environment: lines of the log may be malformed, the oracle may lack a
\* symbol or its high/low, every I/O step may fail.
FaultyLines(n) ==
    {Line(f, ts, a, "AAPL", LotSize, 2) :
        ts \in 1..n, a \in Sides, f \in {"ok", "garbage", "no_timestamp", "no_amount"}}
    \cup {Line("ok", ts, "hold", "AAPL", LotSize, 2) : ts \in 1..n}

InitFaulty ==
    /\ Quiet
    /\ ledger \in {<<>>, <<Seed(300, 100, 100)>>}
    /\ \E n \in 0..MaxLen : \E log \in [1..n -> FaultyLines(n)] : pending = [NoOrders EXCEPT ![BatchDate] = log]
    /\ \E q \in Quotes \cup PartialQuotes \cup {NoEntry} : prices = SamePrices(q)

NextFaulty ==
    \/ outcome = NoOutcome /\ Call(Scheduler, BatchDate)
    \/ Settle(Scheduler)
    \/ Fault(Scheduler)

SpecFaulty == InitFaulty /\ [][NextFaulty]_vars

\* SpecIntake: the agent places orders for any date; nothing is settled.
InitIntake ==
    /\ Quiet
    /\ ledger \in {<<>>, <<Seed(300, 100, 100)>>}
    /\ pending = NoOrders
    /\ prices = SamePrices([present |-> TRUE, low |-> 2, high |-> 3])

NextIntake == Intake

SpecIntake == InitIntake /\ [][NextIntake]_vars

\* SpecOracle: one settlement run of date BatchDate over intents of both
\* symbols, where the oracle may lack either symbol or its high or low.
OracleLines(n) ==
    {Line("ok", ts, a, s, LotSize, 2) : ts \in 1..n, a \in Sides, s \in Symbols}

OracleEntries == {[present |-> TRUE, low |-> 2, high |-> 3], NoEntry} \cup PartialQuotes

InitOracle ==
    /\ Quiet
    /\ ledger \in {<<>>, <<Seed(300, 100, 100)>>}
    /\ \E n \in 0..MaxLen : \E log \in [1..n -> OracleLines(n)] : pending = [NoOrders EXCEPT ![BatchDate] = log]
    /\ \E e \in [Symbols -> OracleEntries] : prices = [d \in Dates |-> e]

NextOracle ==
    \/ outcome = NoOutcome /\ Call(Scheduler, BatchDate)
    \/ Settle(Scheduler)

SpecOracle == InitOracle /\ [][NextOracle]_vars

\* SpecCN: one settlement run of date BatchDate over every log of at most
\* MaxLen + 1 buys and sells of one lot of the CN symbol, on an account
\* that holds no share of it, or one lot.
CNLines(n) ==
    {Line("ok", ts, a, "600519.SH", LotSize, 2) : ts \in 1..n, a \in Sides}

InitCN ==
    /\ Quiet
    /\ ledger \in {<<Seed(300, 0, 0)>>, <<Seed(300, 0, 100)>>}
    /\ \E n \in 0..(MaxLen + 1) : \E log \in [1..n -> CNLines(n)] : pending = [NoOrders EXCEPT ![BatchDate] = log]
    /\ \E q \in Quotes : prices = SamePrices(q)

NextCN ==
    \/ outcome = NoOutcome /\ Call(Scheduler, BatchDate)
    \/ Settle(Scheduler)

SpecCN == InitCN /\ [][NextCN]_vars

\* SpecFloat: one settlement run of date BatchDate over single-share US
\* intents, on an account whose cash is small, or so large that the floats
\* around it are 4 units apart.
LargeCash == 2^(MantissaBits + 1) + 4

FloatLines(n) ==
    {Line("ok", ts, a, "AAPL", 1, lp) : ts \in 1..n, a \in Sides, lp \in BatchLimits}

InitFloat ==
    /\ Quiet
    /\ ledger \in {<<Seed(300, 0, 0)>>, <<Seed(LargeCash, 0, 0)>>}
    /\ \E n \in 0..MaxLen : \E log \in [1..n -> FloatLines(n)] : pending = [NoOrders EXCEPT ![BatchDate] = log]
    /\ prices = SamePrices([present |-> TRUE, low |-> 2, high |-> 3])

NextFloat ==
    \/ outcome = NoOutcome /\ Call(Scheduler, BatchDate)
    \/ Settle(Scheduler)

SpecFloat == InitFloat /\ [][NextFloat]_vars

\* ------------------------------------------------------------ properties
SettlementCount(l, d) ==
    Cardinality({i \in 1..Len(l) : l[i].date = d /\ l[i].this_action = "daily_settlement"})

\* the positions of run_daily_settlement after the idempotency check
PastCheck == {"pending", "sort", "settle", "save"}

C5_IdChain ==
    \A i \in 2..Len(ledger) : ledger[i].id = ledger[i - 1].id + 1

\* C6 (as claimed): a call that returns normally for a date that had no
\* settlement record has appended exactly one snapshot.
C6_ReturnsOnlyAfterAppend ==
    outcome.exit \in Returns \ {"skip"} =>
        /\ Len(ledger) = Len(outcome.before) + 1
        /\ SubSeq(ledger, 1, Len(outcome.before)) = outcome.before

\* C7: a call that ends with an exception (Calendar Service, Price Oracle,
\* or a KeyError while sorting or replaying the intents) leaves the ledger
\* exactly as the call found it.
C7_FailedRunWritesNothing ==
    outcome.exit \in Raises => ledger = outcome.before

\* the replay raised at the second intent, after the first one was filled
C7_Witness ==
    /\ outcome.exit = "order_error"
    /\ Len(pending[outcome.date]) = 2
    /\ pending[outcome.date][1].form = "ok"
    /\ pending[outcome.date][1].action = "buy"
    /\ pending[outcome.date][1].timestamp < pending[outcome.date][2].timestamp
    /\ prices[outcome.date]["AAPL"].low = 2
    /\ outcome.before # <<>>

\* C2: with a starting snapshot of non-negative cash and holdings and
\* intents of positive quantity and limit price, the working state after
\* every intent and every appended snapshot have cash >= 0 and
\* holdings[symbol] >= 0 for every symbol.
C2_NonNegative ==
    /\ \A p \in Callers : \A k \in Keys : run[p].settled_position[k] >= 0
    /\ \A i \in 1..Len(ledger) : \A k \in Keys : ledger[i].positions[k] >= 0

\* a snapshot appended after a buy that used all the cash and a second buy
\* that the cash no longer covered
C2_Witness ==
    /\ outcome.exit = "saved"
    /\ LET rec == ledger[Len(ledger)]
       IN  /\ rec.positions["CASH"] = 0
           /\ Len(rec.trades) = 2
           /\ rec.trades[1].status = "Filled" /\ rec.trades[1].action = "buy"
           /\ rec.trades[2].status = "Failed-Cash"

InWith == {"start", "check", "pending", "sort", "settle", "save"}

\* C4: at most one settlement run is inside the critical section, and a
\* run is inside it (from before the starting snapshot is read until the
\* snapshot is appended) exactly while it holds the account lock.
C4_MutualExclusion ==
    /\ Cardinality({p \in Callers : run[p].pc \in InWith}) <= 1
    /\ \A p \in Callers : run[p].pc \in InWith <=> lock = p

\* one run replays its intents while another call waits for the lock
C4_Witness ==
    \E p, q \in Callers :
        /\ run[p].pc = "settle"
        /\ run[q].pc = "lock"

\* a step of the loop of Step 7 by caller p that did not raise
LoopStep(p) ==
    /\ run[p].pc = "settle"
    /\ run'[p].pc \in {"settle", "save"}
    /\ run'[p].idx = run[p].idx + 1

LastTrade(r) == r.executed_trades_log[Len(r.executed_trades_log)]

\* C8: an intent whose outcome is Filled changes the working state by
\* exactly cash -/+ q*p and holdings[symbol] +/- q (buy/sell), changes no
\* other holding, and records filled_price = limit price.
C8_FilledEffect ==
    [][\A p \in Callers : LoopStep(p) =>
          LET o == run[p].sorted_orders[run[p].idx]
              t == LastTrade(run'[p])
              pos == run[p].settled_position
              q == o.amount
              px == o.limit_price
          IN  /\ Len(run'[p].executed_trades_log) = Len(run[p].executed_trades_log) + 1
              /\ t.status = "Filled" =>
                    /\ t.filled_price = px
                    /\ t.timestamp = o.timestamp /\ t.symbol = o.symbol
                    /\ o.action = "buy" =>
                          run'[p].settled_position =
                              [pos EXCEPT !["CASH"] = @ - q * px, ![o.symbol] = @ + q]
                    /\ o.action = "sell" =>
                          run'[p].settled_position =
                              [pos EXCEPT !["CASH"] = @ + q * px, ![o.symbol] = @ - q]
      ]_vars

\* a run filled a buy and then a sell
C8_Witness ==
    \E p \in Callers :
        /\ run[p].pc = "save"
        /\ Len(run[p].executed_trades_log) = 2
        /\ run[p].executed_trades_log[1].status = "Filled"
        /\ run[p].executed_trades_log[1].action = "buy"
        /\ run[p].executed_trades_log[2].status = "Filled"
        /\ run[p].executed_trades_log[2].action = "sell"

\* shares of sym added by the Filled trades among the first n of a log
RECURSIVE NetShares(_, _, _)
NetShares(log, sym, n) ==
    IF n = 0 THEN 0
    ELSE NetShares(log, sym, n - 1) +
         (IF log[n].status = "Filled" /\ log[n].symbol = sym
          THEN IF log[n].action = "buy" THEN log[n].amount ELSE 0 - log[n].amount
          ELSE 0)

\* cash added by the Filled trades among the first n of a log
RECURSIVE NetCash(_, _)
NetCash(log, n) ==
    IF n = 0 THEN 0
    ELSE NetCash(log, n - 1) +
         (IF log[n].status = "Filled"
          THEN IF log[n].action = "sell" THEN log[n].amount * log[n].limit_price
               ELSE 0 - log[n].amount * log[n].limit_price
          ELSE 0)

\* C9: the intents are replayed in ascending timestamp order whatever their
\* order in the file, and each one's feasibility is decided on the state the
\* earlier ones left: a priced buy is Filled exactly when its cost is within
\* the starting cash plus the net cash of the earlier Filled trades, a
\* priced T+0 sell exactly when its quantity is within the starting
\* holding plus the net shares of the earlier Filled trades.
C9_TimestampOrder ==
    \A p \in Callers : (run[p].pc \in {"settle", "save"} /\ run[p].idx >= 1) =>
        LET log == run[p].executed_trades_log
            start == run[p].start_position
            md == run[p].market_data
        IN  /\ \A i, j \in 1..Len(log) : i < j => log[i].timestamp <= log[j].timestamp
            /\ \A i \in 1..Len(log) : \A j \in run[p].idx..Len(run[p].sorted_orders) :
                  log[i].timestamp <= run[p].sorted_orders[j].timestamp
            /\ Len(log) + Len(run[p].sorted_orders) - run[p].idx + 1
                  = Len(pending[run[p].today_date])
            /\ \A j \in 1..Len(log) :
                  /\ log[j].action = "buy" =>
                       (log[j].status = "Filled" <=>
                          /\ log[j].limit_price >= md[log[j].symbol].low
                          /\ log[j].amount * log[j].limit_price
                                <= start["CASH"] + NetCash(log, j - 1))
                  /\ (log[j].action = "sell" /\ MarketOf(log[j].symbol) = "us") =>
                       (log[j].status = "Filled" <=>
                          /\ log[j].limit_price <= md[log[j].symbol].high
                          /\ log[j].amount
                                <= start[log[j].symbol] + NetShares(log, log[j].symbol, j - 1))

\* the file holds the sell before the buy, the buy has the earlier
\* timestamp: starting without shares, the buy is Filled and then the sell
C9_Witness ==
    \E p \in Callers :
        /\ run[p].pc = "save"
        /\ run[p].start_position["AAPL"] = 0
        /\ Len(pending[run[p].today_date]) = 2
        /\ pending[run[p].today_date][1].action = "sell"
        /\ pending[run[p].today_date][1].symbol = "AAPL"
        /\ pending[run[p].today_date][2].action = "buy"
        /\ pending[run[p].today_date][2].symbol = "AAPL"
        /\ pending[run[p].today_date][2].timestamp < pending[run[p].today_date][1].timestamp
        /\ run[p].executed_trades_log[1].status = "Filled"
        /\ run[p].executed_trades_log[2].status = "Filled"
        /\ run[p].settled_position["AAPL"] = 0

\* quantity of sym bought by the Filled buys of a log
BoughtInRun(log, sym) ==
    NetShares(SelectSeq(log, LAMBDA t : t.action = "buy"), sym,
              Len(SelectSeq(log, LAMBDA t : t.action = "buy")))

\* C10: a priced sell of a CN symbol whose quantity exceeds the holding
\* less the shares bought by the Filled buys of the same run is rejected as
\* Failed-Shares/T+1 with reason "T+1 restriction", recording the total and
\* the sellable shares, and changes neither cash, holdings nor counters.
C10_T1Restriction ==
    [][\A p \in Callers : LoopStep(p) =>
          LET o == run[p].sorted_orders[run[p].idx]
              t == LastTrade(run'[p])
              pos == run[p].settled_position
              today == BoughtInRun(run[p].executed_trades_log, o.symbol)
          IN  (/\ o.action = "sell"
               /\ MarketOf(o.symbol) = "cn"
               /\ o.limit_price <= run[p].market_data[o.symbol].high
               /\ today > 0
               /\ pos[o.symbol] - today < o.amount) =>
                  /\ t.status = "Failed-Shares/T+1"
                  /\ t.reason = "T+1 restriction"
                  /\ t.total_shares = pos[o.symbol]
                  /\ t.sellable_shares = pos[o.symbol] - today
                  /\ run'[p].settled_position = pos
                  /\ run'[p].shares_bought_today_cn = run[p].shares_bought_today_cn
      ]_vars

\* a CN buy was Filled and the sell of the same shares, which the total
\* holding covers, was rejected
C10_Witness ==
    \E p \in Callers :
        /\ run[p].pc = "save"
        /\ Len(run[p].executed_trades_log) = 2
        /\ run[p].executed_trades_log[1].status = "Filled"
        /\ run[p].executed_trades_log[1].action = "buy"
        /\ run[p].executed_trades_log[1].symbol = "600519.SH"
        /\ run[p].executed_trades_log[2].status = "Failed-Shares/T+1"
        /\ run[p].executed_trades_log[2].symbol = "600519.SH"
        /\ run[p].executed_trades_log[2].total_shares >= run[p].executed_trades_log[2].amount
        /\ run[p].executed_trades_log[2].sellable_shares = 0

\* C11: a call for an unsettled date whose intent file is absent or holds
\* no parseable line takes the no-intent return, and the record it appends
\* is the only one added: it carries the date, an empty trade list, the
\* positions of the start snapshot unchanged and the start snapshot's id
\* plus 1.  (An append that fails is the subject of C6.)
C11_ZeroIntents ==
    /\ outcome.exit \in {"no_file", "no_orders"} =>
          parsed_lines(pending[outcome.date]) = <<>>
    /\ outcome.exit = "saved" => parsed_lines(pending[outcome.date]) # <<>>
    /\ (outcome.exit \in {"no_file", "no_orders"} /\ ledger # outcome.before) =>
          LET got == get_latest_position(outcome.before,
                                         get_yesterday_date(outcome.date))
              rec == ledger[Len(ledger)]
          IN  /\ ledger = Append(outcome.before, rec)
              /\ rec.date = outcome.date
              /\ rec.this_action = "daily_settlement"
              /\ rec.trades = <<>>
              /\ rec.positions = got.positions
              /\ rec.id = got.id + 1

\* a file of two unparseable lines: the seeded positions are appended
\* unchanged under the next id
C11_Witness ==
    /\ outcome.exit = "no_orders"
    /\ Len(pending[outcome.date]) = 2
    /\ Len(outcome.before) = 1
    /\ Len(ledger) = 2
    /\ ledger[2].positions = ledger[1].positions
    /\ ledger[2].positions["CASH"] > 0
    /\ ledger[2].id = ledger[1].id + 1
    /\ ledger[2].trades = <<>>

\* C12: once a date is settled, every intent logged for that date appears
\* exactly once among the trades of the date's snapshot, however the intake
\* calls and the settlement call were interleaved.
C12_EveryIntentSettledOnce ==
    \A i \in 1..Len(ledger) :
        ledger[i].this_action = "daily_settlement" =>
            \A k \in 1..Len(pending[ledger[i].date]) :
                Cardinality({j \in 1..Len(ledger[i].trades) :
                    ledger[i].trades[j].timestamp
                        = pending[ledger[i].date][k].timestamp}) = 1

\* a record as the intake validation lets it through
ValidRecord(x) ==
    /\ x.form = "ok"
    /\ x.amount > 0
    /\ x.limit_price > 0
    /\ x.market = MarketOf(x.symbol)
    /\ x.market = "cn" => x.amount % LotSize = 0

\* C13: every record of the Intent Log (and every order a tool is about to
\* record) has amount > 0, limit_price > 0 and, in the CN market, an
\* amount that is a multiple of 100; a tool call changes the log only by
\* appending one such record, and a call answered with an error leaves the
\* log as it was.
C13_IntakeValidation ==
    /\ [](/\ \A o \in inflight : ValidRecord(o.line)
          /\ \A d \in Dates : \A i \in 1..Len(pending[d]) : ValidRecord(pending[d][i]))
    /\ [][/\ (reply' # reply /\ reply' # "OrderPlaced") => pending' = pending
          /\ pending' # pending =>
                /\ reply' = "OrderPlaced"
                /\ \E d \in Dates :
                      /\ Len(pending'[d]) = Len(pending[d]) + 1
                      /\ SubSeq(pending'[d], 1, Len(pending[d])) = pending[d]
                      /\ ValidRecord(pending'[d][Len(pending'[d])])
                      /\ \A e \in Dates \ {d} : pending'[e] = pending[e]
      ]_vars

\* a CN order of 100 shares was recorded, a later order was refused by the
\* validation, and the log still holds the one record
C13_Witness ==
    /\ reply = "error"
    /\ inflight = {}
    /\ \E d \in Dates :
          /\ Len(pending[d]) = 1
          /\ pending[d][1].market = "cn"
          /\ pending[d][1].amount = LotSize
          /\ \A e \in Dates \ {d} : pending[e] = <<>>

\* what identifies an intent in the log and in the trade list
IntentKey(x) == <<x.timestamp, x.action, x.symbol, x.amount, x.limit_price>>

\* number of elements of the sequence s with the key k
CountKey(s, k) == Cardinality({i \in 1..Len(s) : IntentKey(s[i]) = k})

\* C14: the snapshot appended by a run that processed intents lists one
\* trade outcome for every intent of the day's log, filled or not, and no
\* other: as many outcomes as intents, each intent as often among the
\* outcomes as in the log, in ascending timestamp order.
C14_OneOutcomePerIntent ==
    outcome.exit = "saved" =>
        LET rec == ledger[Len(ledger)]
            log == pending[outcome.date]
        IN  /\ ledger = Append(outcome.before, rec)
            /\ Len(rec.trades) = Len(log)
            /\ \A k \in 1..Len(log) :
                  CountKey(rec.trades, IntentKey(log[k])) = CountKey(log, IntentKey(log[k]))
            /\ \A i, j \in 1..Len(rec.trades) :
                  i < j => rec.trades[i].timestamp <= rec.trades[j].timestamp

\* a log written out of timestamp order whose first intent was Filled and
\* whose second was not: both are in the snapshot, by timestamp
C14_Witness ==
    /\ outcome.exit = "saved"
    /\ Len(pending[outcome.date]) = 2
    /\ pending[outcome.date][1].timestamp > pending[outcome.date][2].timestamp
    /\ Len(ledger[Len(ledger)].trades) = 2
    /\ ledger[Len(ledger)].trades[1].status = "Filled"
    /\ ledger[Len(ledger)].trades[2].status # "Filled"

\* the lines of a log that are intents: parsed, complete, buy or sell
WellFormed(lines) ==
    SelectSeq(lines, LAMBDA x : x.form = "ok" /\ x.action \in Sides)

\* C15: a malformed entry of the day's log (a line that does not parse, a
\* record without timestamp or amount, a record with an unknown action)
\* does not end the run by an exception; it is left out of the trades, and
\* the appended snapshot holds one outcome for each well-formed intent.
C15_MalformedNotFatal ==
    /\ outcome.exit \notin {"sort_error", "order_error"}
    /\ (outcome.exit = "saved" /\ ledger # outcome.before) =>
          /\ Len(ledger[Len(ledger)].trades) = Len(WellFormed(pending[outcome.date]))
          /\ \A k \in 1..Len(WellFormed(pending[outcome.date])) :
                CountKey(ledger[Len(ledger)].trades,
                         IntentKey(WellFormed(pending[outcome.date])[k])) >= 1

\* the oracle's entry for the symbol of an order has a high and a low
Priced(entry) == entry.present /\ entry.low # None /\ entry.high # None

\* C16: for an intent whose symbol has a high and a low, the outcome is
\* OrderNotFilled-Price exactly when limit_price < day_low (buy) or
\* limit_price > day_high (sell), a limit equal to the bound being
\* eligible; that outcome carries the day's low (buy) or high (sell) and
\* leaves cash, holdings and the bought-today counters as they were.
C16_PriceEligibility ==
    [][\A p \in Callers : LoopStep(p) =>
          LET o == run[p].sorted_orders[run[p].idx]
              t == LastTrade(run'[p])
              entry == run[p].market_data[o.symbol]
          IN  Priced(entry) =>
                /\ o.action = "buy" =>
                      (t.status = "OrderNotFilled-Price" <=> o.limit_price < entry.low)
                /\ o.action = "sell" =>
                      (t.status = "OrderNotFilled-Price" <=> o.limit_price > entry.high)
                /\ t.status = "OrderNotFilled-Price" =>
                      /\ o.action = "buy" => t.day_low_price = entry.low
                      /\ o.action = "sell" => t.day_high_price = entry.high
                      /\ t.timestamp = o.timestamp
                      /\ run'[p].settled_position = run[p].settled_position
                      /\ run'[p].shares_bought_today_cn = run[p].shares_bought_today_cn
      ]_vars

\* a buy at exactly the day's low was Filled, a sell above the day's high
\* was not, although the shares were there
C16_Witness ==
    \E p \in Callers :
        /\ run[p].pc = "save"
        /\ Len(run[p].executed_trades_log) = 2
        /\ run[p].executed_trades_log[1].action = "buy"
        /\ run[p].executed_trades_log[1].status = "Filled"
        /\ run[p].executed_trades_log[1].limit_price
              = run[p].market_data[run[p].executed_trades_log[1].symbol].low
        /\ run[p].executed_trades_log[2].action = "sell"
        /\ run[p].executed_trades_log[2].status = "OrderNotFilled-Price"
        /\ run[p].executed_trades_log[2].day_high_price < run[p].executed_trades_log[2].limit_price
        /\ run[p].settled_position[run[p].executed_trades_log[2].symbol]
              >= run[p].executed_trades_log[2].amount

\* C17: an intent whose symbol the oracle has no entry for is recorded as
\* Failed-NoMarketData, one whose entry lacks the high or the low as
\* Failed-NoPriceData; the step changes neither cash, holdings nor
\* counters, the loop goes on, and the run ends by appending a snapshot
\* with one outcome per intent.
C17_MissingPriceIsLocal ==
    /\ [](outcome.exit \notin Raises
          /\ (outcome.exit = "saved" =>
                 /\ Len(ledger) = Len(outcome.before) + 1
                 /\ Len(ledger[Len(ledger)].trades) = Len(pending[outcome.date])))
    /\ [][\A p \in Callers : LoopStep(p) =>
            LET o == run[p].sorted_orders[run[p].idx]
                t == LastTrade(run'[p])
                entry == run[p].market_data[o.symbol]
            IN  /\ (t.status = "Failed-NoMarketData") <=> ~entry.present
                /\ (t.status = "Failed-NoPriceData") <=>
                       (entry.present /\ (entry.low = None \/ entry.high = None))
                /\ ~Priced(entry) =>
                       /\ t.timestamp = o.timestamp
                       /\ run'[p].settled_position = run[p].settled_position
                       /\ run'[p].shares_bought_today_cn = run[p].shares_bought_today_cn
      ]_vars

\* the snapshot of a run whose first intent had no market data and whose
\* second, of the other symbol, was Filled
C17_Witness ==
    /\ outcome.exit = "saved"
    /\ Len(ledger[Len(ledger)].trades) = 2
    /\ ledger[Len(ledger)].trades[1].status = "Failed-NoMarketData"
    /\ ledger[Len(ledger)].trades[2].status = "Filled"
    /\ ledger[Len(ledger)].positions # outcome.before[Len(outcome.before)].positions

\* the working state after the first n orders of a batch
RECURSIVE StateAfter(_, _, _, _)
StateAfter(start, orders, md, n) ==
    IF n = 0 THEN [positions |-> start, bought |-> [s \in Symbols |-> 0]]
    ELSE LET prev == StateAfter(start, orders, md, n - 1)
             res == settle_order(prev.positions, prev.bought, orders[n],
                                 md[orders[n].symbol])
         IN  [positions |-> res.positions, bought |-> res.bought]

\* C18: in a T+0 run, when a Filled buy of q shares of a symbol at price p
\* is followed by a Filled sell of q shares of that symbol at p, cash and
\* the holding of the symbol are what they were before the buy.
C18_RoundTrip ==
    \A p \in Callers : (run[p].pc \in {"settle", "save"} /\ run[p].idx >= 3) =>
        LET log == run[p].executed_trades_log
            j == Len(log)
            before == StateAfter(run[p].start_position, run[p].sorted_orders,
                                 run[p].market_data, j - 2).positions
        IN  (/\ j = run[p].idx - 1
             /\ log[j - 1].status = "Filled" /\ log[j - 1].action = "buy"
             /\ log[j].status = "Filled" /\ log[j].action = "sell"
             /\ log[j].symbol = log[j - 1].symbol
             /\ MarketOf(log[j].symbol) = "us"
             /\ log[j].amount = log[j - 1].amount
             /\ log[j].limit_price = log[j - 1].limit_price) =>
                /\ run[p].settled_position["CASH"] = before["CASH"]
                /\ run[p].settled_position[log[j].symbol] = before[log[j].symbol]

\* C19: a price-eligible buy is Filled exactly when the working cash is at
\* least limit_price * amount (equal cash fills), and is Failed-Cash
\* otherwise; a price-eligible sell is Filled exactly when the sellable
\* quantity is at least the amount, and is Failed-Shares/T+1 otherwise,
\* where sellable is the holding for a US intent and the holding less the
\* shares bought by the Filled CN buys of the symbol earlier in the run for
\* a CN intent; the bought-today counters hold exactly those shares.
C19_Feasibility ==
    /\ [](\A p \in Callers : \A s \in Symbols :
             run[p].shares_bought_today_cn[s] =
                 IF MarketOf(s) = "cn"
                 THEN BoughtInRun(run[p].executed_trades_log, s) ELSE 0)
    /\ [][\A p \in Callers : LoopStep(p) =>
            LET o == run[p].sorted_orders[run[p].idx]
                t == LastTrade(run'[p])
                entry == run[p].market_data[o.symbol]
                pos == run[p].settled_position
                sellable == IF MarketOf(o.symbol) = "cn"
                            THEN pos[o.symbol]
                                   - BoughtInRun(run[p].executed_trades_log, o.symbol)
                            ELSE pos[o.symbol]
            IN  /\ (Priced(entry) /\ o.action = "buy" /\ o.limit_price >= entry.low) =>
                      /\ t.status = "Filled" <=> pos["CASH"] >= o.limit_price * o.amount
                      /\ t.status # "Filled" => t.status = "Failed-Cash"
                      /\ pos["CASH"] = o.limit_price * o.amount =>
                            run'[p].settled_position["CASH"] = 0
                /\ (Priced(entry) /\ o.action = "sell" /\ o.limit_price <= entry.high) =>
                      /\ t.status = "Filled" <=> sellable >= o.amount
                      /\ t.status # "Filled" =>
                            /\ t.status = "Failed-Shares/T+1"
                            /\ t.total_shares = pos[o.symbol]
                            /\ t.sellable_shares = sellable
      ]_vars

\* a buy that costs exactly the cash of the account is Filled and leaves
\* no cash; the US sell after it is covered by the shares just bought
C19_Witness ==
    \E p \in Callers :
        /\ run[p].pc = "save"
        /\ Len(run[p].executed_trades_log) = 2
        /\ run[p].executed_trades_log[1].status = "Filled"
        /\ run[p].executed_trades_log[1].action = "buy"
        /\ run[p].executed_trades_log[1].amount * run[p].executed_trades_log[1].limit_price
              = run[p].start_position["CASH"]
        /\ run[p].executed_trades_log[2].status = "Filled"
        /\ run[p].executed_trades_log[2].action = "sell"
        /\ run[p].executed_trades_log[2].symbol = run[p].executed_trades_log[1].symbol
        /\ run[p].start_position[run[p].executed_trades_log[2].symbol] = 0

\* the records of a ledger are in ascending date order
InDateOrder(l) == \A i, j \in 1..Len(l) : i < j => l[i].date < l[j].date

\* the positions of run_daily_settlement after the start position is read
PastStart == {"check", "pending", "sort", "settle", "save"}

\* C20: the start position (and id) of a run for date D are those of a
\* ledger record dated on or before the prior session of D that no record
\* dated on or before that session is later than; so on a ledger settled in
\* date order whose last record is dated before D, the run starts from the
\* final positions of the last record, whether that is the prior session's
\* or, the days between never having been settled, an earlier one's.
C20_StartStateChain ==
    \A p \in Callers : run[p].pc \in PastStart =>
        LET l == run[p].entry
            prior == get_yesterday_date(run[p].today_date)
        IN  /\ (\E i \in 1..Len(l) : l[i].date <= prior) =>
                  \E k \in 1..Len(l) :
                      /\ l[k].date <= prior
                      /\ \A i \in 1..Len(l) : l[i].date <= prior => l[i].date <= l[k].date
                      /\ run[p].start_position = l[k].positions
                      /\ run[p].last_action_id = l[k].id
            /\ (l # <<>> /\ InDateOrder(l) /\ l[Len(l)].date < run[p].today_date) =>
                  /\ run[p].start_position = l[Len(l)].positions
                  /\ run[p].last_action_id = l[Len(l)].id

\* day 1 was settled with a Filled trade on the seeded account, and the
\* run of day 2 starts from day 1's final positions, not from the seed's
C20_Witness ==
    \E p \in Callers :
        /\ run[p].pc = "check"
        /\ run[p].today_date = 2
        /\ Len(ledger) = 2
        /\ ledger[1].this_action = "seed"
        /\ ledger[2].date = 1
        /\ \E i \in 1..Len(ledger[2].trades) : ledger[2].trades[i].status = "Filled"
        /\ ledger[2].positions # ledger[1].positions
        /\ run[p].start_position = ledger[2].positions

\* the records of a sequence that carry timestamp t, in their order
WithTimestamp(s, t) == SelectSeq(s, LAMBDA x : x.timestamp = t)

\* C21: the batch is replayed in ascending timestamp order, and the intents
\* of one timestamp in the order the intent file holds them; the trades
\* recorded so far are those of the first orders in that sequence, and the
\* working state is the replay of those orders from the start position.
C21_StableOrder ==
    \A p \in Callers : (run[p].pc \in {"settle", "save"} /\ run[p].idx >= 1) =>
        LET so == run[p].sorted_orders
            file == parsed_lines(pending[run[p].today_date])
            log == run[p].executed_trades_log
            done == StateAfter(run[p].start_position, so, run[p].market_data,
                               run[p].idx - 1)
        IN  /\ Len(so) = Len(file)
            /\ \A i, j \in 1..Len(so) : i < j => so[i].timestamp <= so[j].timestamp
            /\ \A t \in {file[i].timestamp : i \in 1..Len(file)} :
                  WithTimestamp(so, t) = WithTimestamp(file, t)
            /\ Len(log) = run[p].idx - 1
            /\ \A i \in 1..Len(log) : IntentKey(log[i]) = IntentKey(so[i])
            /\ run[p].settled_position = done.positions
            /\ run[p].shares_bought_today_cn = done.bought

\* the file holds a sell and then a buy of the same timestamp: starting
\* without shares, the sell is rejected first and the buy is Filled after it
C21_Witness ==
    \E p \in Callers :
        /\ run[p].pc = "save"
        /\ run[p].start_position["AAPL"] = 0
        /\ Len(pending[run[p].today_date]) = 2
        /\ pending[run[p].today_date][1].timestamp = pending[run[p].today_date][2].timestamp
        /\ pending[run[p].today_date][1].action = "sell"
        /\ pending[run[p].today_date][1].symbol = "AAPL"
        /\ pending[run[p].today_date][2].action = "buy"
        /\ pending[run[p].today_date][2].symbol = "AAPL"
        /\ Len(run[p].executed_trades_log) = 2
        /\ run[p].executed_trades_log[1].action = "sell"
        /\ run[p].executed_trades_log[1].status = "Failed-Shares/T+1"
        /\ run[p].executed_trades_log[2].action = "buy"
        /\ run[p].executed_trades_log[2].status = "Filled"

\* C22: a caller holds the lock only inside the `with` block; every step
\* that takes a caller out of the block, by any return or by an exception,
\* releases the lock; every holder releases it in the end, and every caller
\* waiting for the lock is admitted in the end.
C22_LockReleased ==
    /\ [](\A p \in Callers : lock = p => run[p].pc \in InWith)
    /\ [][\A p \in Callers : (run[p].pc \in InWith /\ run'[p].pc \notin InWith) =>
             /\ lock = p
             /\ lock' = NoHolder
             /\ run'[p].pc = "idle"
             /\ outcome'.exit \in Raises \cup Returns]_vars
    /\ \A p \in Callers : (lock = p) ~> (lock = NoHolder)
    /\ \A q \in Callers : (run[q].pc = "lock") ~> (run[q].pc = "start")

\* a call waits for the lock, which is free after the other caller's call
\* left the `with` block by an exception
C22_Witness ==
    \E p, q \in Callers :
        /\ p # q
        /\ run[q].pc = "lock"
        /\ run[p].pc = "idle"
        /\ lock = NoHolder
        /\ outcome.exit \in Raises
        /\ outcome.date # run[q].today_date

\* quantity of sym sold by the Filled sells of a log
SoldInRun(log, sym) ==
    0 - NetShares(SelectSeq(log, LAMBDA t : t.action = "sell"), sym,
                  Len(SelectSeq(log, LAMBDA t : t.action = "sell")))

\* C23: at every point of a run, for every CN symbol, the Filled sells of
\* the run have sold at most the holding of the start position; the counter
\* holds the shares bought by the Filled buys of the run, and the sellable
\* quantity (holding less counter) is the start holding less the shares
\* sold.
C23_SellsWithinStart ==
    \A p \in Callers : (run[p].pc \in {"settle", "save"} /\ run[p].idx >= 1) =>
        \A sym \in Symbols : MarketOf(sym) = "cn" =>
            LET log == run[p].executed_trades_log
                start == run[p].start_position[sym]
                sold == SoldInRun(log, sym)
            IN  /\ sold <= start
                /\ run[p].shares_bought_today_cn[sym] = BoughtInRun(log, sym)
                /\ run[p].settled_position[sym] - run[p].shares_bought_today_cn[sym]
                      = start - sold

\* starting with one lot, a buy of a lot is Filled, a sell of a lot is
\* Filled, and a second sell is rejected although a lot is held
C23_Witness ==
    \E p \in Callers :
        /\ run[p].pc = "save"
        /\ run[p].start_position["600519.SH"] = LotSize
        /\ Len(run[p].executed_trades_log) = 3
        /\ \E i, j, k \in 1..3 :
              /\ i < k /\ j < k
              /\ run[p].executed_trades_log[i].action = "buy"
              /\ run[p].executed_trades_log[i].status = "Filled"
              /\ run[p].executed_trades_log[j].action = "sell"
              /\ run[p].executed_trades_log[j].status = "Filled"
              /\ run[p].executed_trades_log[k].action = "sell"
              /\ run[p].executed_trades_log[k].status = "Failed-Shares/T+1"
              /\ run[p].executed_trades_log[k].total_shares = LotSize
              /\ run[p].executed_trades_log[k].sellable_shares = 0

\* the outcomes of a rejection for a business-rule reason
Rejected == {"Failed-Cash", "Failed-Shares/T+1"}

\* the trades of the first n orders of a batch replayed from start
RECURSIVE OutcomesAfter(_, _, _, _)
OutcomesAfter(start, orders, md, n) ==
    IF n = 0 THEN <<>>
    ELSE LET prev == StateAfter(start, orders, md, n - 1)
         IN  Append(OutcomesAfter(start, orders, md, n - 1),
                    settle_order(prev.positions, prev.bought, orders[n],
                                 md[orders[n].symbol]).trade)

\* the first n orders of a batch without those whose trade was a rejection
RECURSIVE NotRejected(_, _, _)
NotRejected(orders, log, n) ==
    IF n = 0 THEN <<>>
    ELSE IF log[n].status \in Rejected
    THEN NotRejected(orders, log, n - 1)
    ELSE Append(NotRejected(orders, log, n - 1), orders[n])

\* C24: the loop step of an intent recorded as Failed-Cash or
\* Failed-Shares/T+1 changes neither cash, nor a holding, nor a bought-today
\* counter; and when the loop is over, the batch replayed without the
\* rejected intents gives every other intent the outcome the run gave it
\* and ends in the positions and counters the run ended in.
C24_RejectionFrame ==
    /\ [][\A p \in Callers : (LoopStep(p) /\ LastTrade(run'[p]).status \in Rejected) =>
             /\ run'[p].settled_position = run[p].settled_position
             /\ run'[p].shares_bought_today_cn = run[p].shares_bought_today_cn]_vars
    /\ [](\A p \in Callers : (run[p].pc = "save" /\ run[p].ret = "saved") =>
             LET log == run[p].executed_trades_log
                 kept == NotRejected(run[p].sorted_orders, log, Len(log))
                 end == StateAfter(run[p].start_position, kept,
                                   run[p].market_data, Len(kept))
             IN  /\ Len(log) = Len(run[p].sorted_orders)
                 /\ OutcomesAfter(run[p].start_position, kept, run[p].market_data,
                                  Len(kept))
                       = SelectSeq(log, LAMBDA t : t.status \notin Rejected)
                 /\ end.positions = run[p].settled_position
                 /\ end.bought = run[p].shares_bought_today_cn)

\* a buy is Filled, a second buy is rejected for cash, a sell of the lot
\* held at the start is Filled after it
C24_Witness ==
    \E p \in Callers :
        /\ run[p].pc = "save"
        /\ Len(run[p].executed_trades_log) = 3
        /\ run[p].executed_trades_log[1].action = "buy"
        /\ run[p].executed_trades_log[1].status = "Filled"
        /\ run[p].executed_trades_log[2].action = "buy"
        /\ run[p].executed_trades_log[2].status = "Failed-Cash"
        /\ run[p].executed_trades_log[3].action = "sell"
        /\ run[p].executed_trades_log[3].status = "Filled"
        /\ run[p].settled_position["CASH"] = run[p].start_position["CASH"]

====
